---- MODULE Spec2Model ----
(***************************************************************************)
(* aip: automatic investment plan.                                         *)
(*                                                                         *)
(* The model follows src/aip.go (execute, run), src/plan/plan.go (the plan *)
(* state and New / Invest / Monitor), src/huobi/huobi.go (the exchange     *)
(* client: NewClient, Trade, SymbolPrice, req and its retry loop) and the  *)
(* db package (src/unnamed/part_001: AddOrder, AddStatistics,              *)
(* OrderSummary).                                                          *)
(*                                                                         *)
(* Three threads of control exist: "main" (execute: db.Init, NewClient,    *)
(* plan.New, run), and the goroutines the two cron instances of run()      *)
(* start for a firing: "invest" and "monitor".  No lock exists in plan.go, *)
(* so the steps of invest and monitor interleave freely; every access to   *)
(* a field of plan.state that the other goroutine can observe is its own   *)
(* step.  The investment timer fires at most daily and the monitor timer   *)
(* hourly, while a call is bounded by the 3 s HTTP timeout per attempt,    *)
(* so one firing of a timer has returned before the next firing of the     *)
(* same timer; both timers fire together at 00:00:00.                      *)
(*                                                                         *)
(* float64 amounts and prices are modelled as integers.                    *)
(*                                                                         *)
(* Spec is the program.  ClientSpec is package huobi in the hands of a     *)
(* caller (NewClient, then Symbols, Accounts and SpotAccountID).           *)
(* PureSpec calls the functions of src/plan/period.go and huobi's floor    *)
(* on their own; there floor's float64 arithmetic is binary floating       *)
(* point with a short significand.                                         *)
(***************************************************************************)
EXTENDS Integers, Sequences, FiniteSets, TLC

\* ------------------------------------------------------------------ bounds
\* firings of the two timers (investment and monitor together) that are modelled
MaxCalls == 2

\* ------------------------------------------------------- program constants
\* huobi.go:461  if retry++; retry < 3 { goto t }
RetryLimit == 3

Procs == {"main", "invest", "monitor"}

\* aip.go:83  flags.String("symbol", "btcusdt", ...)
PlanSymbol == "btcusdt"

\* huobi.go:42-45
BuyMarket == "buy-market"
SellMarket == "sell-market"
BuyLimit == "buy-limit"
SellLimit == "sell-limit"
TradeTypes == {BuyMarket, SellMarket, BuyLimit, SellLimit}

\* ------------------------------------------------- inputs (the environment)
\* symbol lists /v1/common/symbols can answer with
SymbolLists == {<<>>, <<"ethusdt", "btcusdt">>}
\* account lists /v1/account/accounts can answer with
AccountLists ==
    { <<>>,
      <<[ID |-> 7, Type |-> "margin"]>>,
      <<[ID |-> 7, Type |-> "margin"], [ID |-> 5, Type |-> "spot"]>>,
      <<[ID |-> 0, Type |-> "spot"]>> }
\* tick lists /market/trade can answer with (Tick.Data, prices)
TickLists == {<<>>, <<1>>, <<2, 1>>}
\* what /v1/order/orders/{id} can report as the type of an order
FillTypes == {BuyLimit, SellLimit, SellMarket}
\* what the exchange executes of an order it accepted, when it does: the
\* filled amounts (field-amount, field-cash-amount)
FillAmount == [fa |-> 1, fca |-> 2]
\* outcomes of one client.Do(req)
DoOutcomes == {"ok", "timeout", "reset", "other"}

NoOrder == [ID |-> 0, Type |-> "", FieldAmount |-> 0, FieldCashAmount |-> 0]

\* Order records earlier runs of the process inserted
SeedBuy == [ID |-> 100, Type |-> BuyLimit, BaseAmount |-> 1, QuoteAmount |-> 3]
SeedSell == [ID |-> 101, Type |-> SellLimit, BaseAmount |-> -1, QuoteAmount |-> -2]

\* the ledgers the process can find at its start: the table is empty, or holds
\* what earlier runs inserted
Ledgers == {{}, {SeedBuy}, {SeedBuy, SeedSell}}

VARIABLES
    pc,          \* [Procs -> label]: position of each thread of control
    retry,       \* req: var retry int (huobi.go:455), per thread
    attempts,    \* client.Do calls of the req in progress, per thread
    res,         \* what the last req returned to its caller, until consumed
    symbols,     \* Client.symbols
    accounts,    \* Client.accounts
    position,    \* plan.state.position
    investment,  \* plan.state.investment
    price,       \* plan.state.price
    equity,      \* plan.state.equity
    updated,     \* plan.state.updated
    orders,      \* table orders (db): its rows, keyed by id
    statistics,  \* table statistics (db), in insertion order
    placed,      \* orders the exchange accepted for the Trade call in progress
    oid,         \* Trade: r.Data, the id the placement returned
    fill,        \* Trade: the order as OpenOrder returned it
    order,       \* Invest: the fetched order, after the sell-side negation
    lprice,      \* stateFlush: local price, per thread
    lpos,        \* stateFlush: the value of p.state.position it read, per thread
    snap,        \* addStatistics: the db.Statistics literal being evaluated
    ret,         \* [Procs -> what the last call of the thread returned]
    nCalls,      \* firings of the two timers so far
    executed,    \* the exchange: the order it accepted last and what it has
                 \* executed of it so far
    fn           \* a call of a function of the packages on its own: its
                 \* name, arguments and results

vars == <<pc, retry, attempts, res, symbols, accounts, position, investment, price,
          equity, updated, orders, statistics, placed, oid, fill, order,
          lprice, lpos, snap, ret, nCalls,
          executed, fn>>

clientVars == <<symbols, accounts>>
stateVars == <<position, investment, price, equity, updated>>
dbVars == <<orders, statistics>>
reqVars == <<retry, attempts, res>>
tradeVars == <<oid, fill, order>>
flushVars == <<lprice, lpos>>

\* time.Now().Unix(): the clock reads the number of timer firings so far (the
\* firings of a cron are at least an hour apart; the process starts at 0)
Now == nCalls

\* what req returns: kind "ok" with the decoded document (num, ord, lst: its
\* data as the callers decode it; status: its status field), or kind "err" with
\* the error (why; code: the exchange's err-code)
NoRes ==
    [kind |-> "none", why |-> "", code |-> "", status |-> "", num |-> 0,
     ord |-> NoOrder, lst |-> <<>>]
\* no order accepted yet
NoExecuted == [ID |-> 0, fa |-> 0, fca |-> 0]
\* no function called yet
NoFn == [name |-> "", args |-> <<>>, err |-> FALSE, obj |-> <<>>, str |-> <<>>]
NoSnap == [Position |-> 0, Investment |-> 0, Price |-> 0, Equity |-> 0, Created |-> 0]

\* db.AddStatistics: the row inserted (created is not among the columns it sets)
StatisticsRow(st) ==
    [Position |-> st.Position, Investment |-> st.Investment, Price |-> st.Price,
     Equity |-> st.Equity]


\* --------------------------------------------------------------- the db
\* db.OrderSummary: SELECT SUM(base_amount), SUM(quote_amount) FROM orders.
\* SUM over no rows is NULL, and row.Scan of NULL into a float64 fails.
RECURSIVE SumBase(_)
SumBase(tbl) ==
    IF tbl = {} THEN 0
    ELSE LET r == CHOOSE x \in tbl : TRUE
         IN  r.BaseAmount + SumBase(tbl \ {r})

RECURSIVE SumQuote(_)
SumQuote(tbl) ==
    IF tbl = {} THEN 0
    ELSE LET r == CHOOSE x \in tbl : TRUE
         IN  r.QuoteAmount + SumQuote(tbl \ {r})

OrderSummary(tbl) ==
    IF tbl = {}
    THEN [err |-> TRUE, position |-> 0, investment |-> 0]
    ELSE [err |-> FALSE, position |-> SumBase(tbl), investment |-> SumQuote(tbl)]

OrderIDs(tbl) == {r.ID : r \in tbl}

\* plan.addOrder: the db.Order built from the fetched order
OrderRecord(o) ==
    [ID |-> o.ID, Type |-> o.Type,
     BaseAmount |-> o.FieldAmount, QuoteAmount |-> o.FieldCashAmount]

\* the switch with SellLimit as its only case
NormalizeLimitOnly(o) ==
    IF o.Type = SellLimit
    THEN [o EXCEPT !.FieldAmount = -o.FieldAmount,
                   !.FieldCashAmount = -o.FieldCashAmount]
    ELSE o

\* Invest, the switch on order.Type: a sell fill is negated
Normalize(o) ==
    IF o.Type \in {SellMarket, SellLimit}
    THEN [o EXCEPT !.FieldAmount = -o.FieldAmount,
                   !.FieldCashAmount = -o.FieldCashAmount]
    ELSE o

\* ------------------------------------------------------------ the client
\* Client.Symbol: linear lookup of the cached symbol list
SymbolFound(name) == \E i \in 1..Len(symbols) : symbols[i] = name

\* Client.SpotAccountID: id of the first account of type "spot"; 0 when the
\* loop found none, and 0 is reported as errAccountNotFound
SpotIndexes == {i \in 1..Len(accounts) : accounts[i].Type = "spot"}
SpotID ==
    IF SpotIndexes = {} THEN 0
    ELSE accounts[CHOOSE i \in SpotIndexes : \A j \in SpotIndexes : i <= j].ID
SpotAccountFound == SpotID # 0

\* response bodies
OkBody(n, o, l) ==
    [status |-> "ok", code |-> "", num |-> n, ord |-> o, lst |-> l]
ErrBody ==
    [status |-> "error", code |-> "bad-request", num |-> 0, ord |-> NoOrder, lst |-> <<>>]
BadBody ==
    [status |-> "malformed", code |-> "", num |-> 0, ord |-> NoOrder, lst |-> <<>>]

ReqLabels ==
    {"symbols_req", "accounts_req", "price_req", "place_req", "order_req",
     "symbols_call_req", "accounts_call_req"}
RetLabel(l) ==
    CASE l = "symbols_req" -> "symbols_ret"
      [] l = "accounts_req" -> "accounts_ret"
      [] l = "price_req" -> "price_ret"
      [] l = "place_req" -> "place_ret"
      [] l = "order_req" -> "order_ret"
      [] l = "symbols_call_req" -> "symbols_call_ret"
      [] l = "accounts_call_req" -> "accounts_call_ret"

\* the id the exchange gives the order it reports to the n-th call: ids are
\* opaque and a call sees at most one, so the call's number names it
OrderIdOf(n) == n

\* what the exchange answers to the request of thread p when the request
\* reaches it; accept: the exchange accepts the order of a placement request
Answers(p, accept) ==
    {BadBody} \cup
    CASE pc[p] \in {"symbols_req", "symbols_call_req"} ->
           {ErrBody} \cup {OkBody(0, NoOrder, l) : l \in SymbolLists}
      [] pc[p] \in {"accounts_req", "accounts_call_req"} ->
           {ErrBody} \cup {OkBody(0, NoOrder, l) : l \in AccountLists}
      [] pc[p] = "price_req" ->
           {ErrBody} \cup {OkBody(0, NoOrder, l) : l \in TickLists}
      [] pc[p] = "place_req" ->
           IF accept THEN {OkBody(OrderIdOf(nCalls), NoOrder, <<>>)} ELSE {ErrBody}
      [] pc[p] = "order_req" ->
           {ErrBody} \cup
           {OkBody(0, [ID |-> oid, Type |-> t, FieldAmount |-> executed.fa,
                       FieldCashAmount |-> executed.fca], <<>>) : t \in FillTypes}

\* handle that lets a status other than "ok" pass
handleIgnoresStatus(body) ==
    IF body.status = "malformed" THEN "json" ELSE ""

\* handle: "" is nil, else the error; a body that ioutil.ReadAll could not
\* read, or that is no JSON document, is "malformed"
handle(body) ==
    IF body.status = "malformed" THEN "json"
    ELSE IF body.status # "ok" THEN "api"
    ELSE ""

ErrRes(why, code) ==
    [kind |-> "err", why |-> why, code |-> code, status |-> "", num |-> 0,
     ord |-> NoOrder, lst |-> <<>>]
OkRes(body) ==
    [kind |-> "ok", why |-> "", code |-> body.code, status |-> body.status,
     num |-> body.num, ord |-> body.ord, lst |-> body.lst]

\* req, after client.Do returned a response: lines 474-488
reqResult(body) ==
    IF handle(body) # "" THEN ErrRes(handle(body), body.code) ELSE OkRes(body)

\* the condition of the goto holding for every error of client.Do
RetryableAny(o) == o # "ok"

\* req, the condition of the goto: lines 459-463
Retryable(o) == o \in {"timeout", "reset"}
\* the goto taken while retry <= 3
RetryAgainOnceMore(o, r) == Retryable(o) /\ r + 1 <= RetryLimit
RetryAgain(o, r) == Retryable(o) /\ r + 1 < RetryLimit

ClearReq(p) ==
    /\ retry' = [retry EXCEPT ![p] = 0]
    /\ attempts' = [attempts EXCEPT ![p] = 0]
    /\ res' = [res EXCEPT ![p] = NoRes]

\* one client.Do(req) of the req thread p is in: lines 456-466
Do(p) ==
    /\ pc[p] \in ReqLabels
    /\ \E o \in DoOutcomes, accept \in BOOLEAN :
         /\ accept => pc[p] = "place_req"
         /\ \E body \in Answers(p, accept) :
              /\ placed' = IF accept THEN placed + 1 ELSE placed
              /\ executed' = IF accept
                             THEN [ID |-> OrderIdOf(nCalls), fa |-> 0, fca |-> 0]
                             ELSE executed
              /\ attempts' = [attempts EXCEPT ![p] = @ + 1]
              /\ IF o = "ok"
                 THEN /\ res' = [res EXCEPT ![p] = reqResult(body)]
                      /\ retry' = retry
                      /\ pc' = [pc EXCEPT ![p] = RetLabel(@)]
                 ELSE IF RetryAgain(o, retry[p])
                 THEN /\ retry' = [retry EXCEPT ![p] = @ + 1]
                      /\ UNCHANGED <<res, pc>>
                 ELSE /\ retry' = [retry EXCEPT ![p] = IF Retryable(o) THEN @ + 1 ELSE @]
                      /\ res' = [res EXCEPT ![p] = ErrRes(o, "")]
                      /\ pc' = [pc EXCEPT ![p] = RetLabel(@)]
    /\ UNCHANGED <<clientVars, stateVars, dbVars, tradeVars, flushVars, snap,
                   ret, nCalls, fn>>

\* the exchange executes the order it accepted: at any time after it accepted
\* it, whatever the client is doing
ExchangeFill ==
    /\ executed.ID # 0
    /\ executed.fa = 0
    /\ executed' = [executed EXCEPT !.fa = FillAmount.fa, !.fca = FillAmount.fca]
    /\ UNCHANGED <<pc, reqVars, clientVars, stateVars, dbVars, placed, tradeVars,
                   flushVars, snap, ret, nCalls, fn>>

\* ------------------------------------------------------------------ main
Init ==
    /\ pc = [p \in Procs |-> IF p = "main" THEN "db_init" ELSE "idle"]
    /\ retry = [p \in Procs |-> 0]
    /\ attempts = [p \in Procs |-> 0]
    /\ res = [p \in Procs |-> NoRes]
    /\ symbols = <<>>
    /\ accounts = <<>>
    /\ position = 0
    /\ investment = 0
    /\ price = 0
    /\ equity = 0
    /\ updated = 0
    /\ orders \in Ledgers
    /\ statistics = <<>>
    /\ placed = 0
    /\ oid = 0
    /\ fill = NoOrder
    /\ order = NoOrder
    /\ lprice = [p \in Procs |-> 0]
    /\ lpos = [p \in Procs |-> 0]
    /\ snap = NoSnap
    /\ ret = [p \in Procs |-> "none"]
    /\ nCalls = 0
    /\ executed = NoExecuted
    /\ fn = NoFn

Goto(p, l) == pc' = [pc EXCEPT ![p] = l]

\* execute going on to run(pl) although an earlier step returned an error
ReturnKeepsRunning(p, r) ==
    /\ pc' = [pc EXCEPT ![p] = IF p = "main" THEN "running" ELSE "idle"]
    /\ ret' = [ret EXCEPT ![p] = r]

\* the cron job ending the process when Invest or Monitor returns an error
ReturnEndsProcess(p, r) ==
    /\ pc' = [pc EXCEPT ![p] = IF p = "main" THEN "fatal" ELSE "idle",
                        !["main"] = IF r # "nil" THEN "fatal" ELSE @]
    /\ ret' = [ret EXCEPT ![p] = r]

\* a call returns: Invest and Monitor return to the cron goroutine, which
\* logs the error; an error in execute is fatal (main: log.Fatalln)
Return(p, r) ==
    /\ pc' = [pc EXCEPT ![p] = IF p = "main" THEN "fatal" ELSE "idle"]
    /\ ret' = [ret EXCEPT ![p] = r]

\* execute: db.Init(dbfile)
DbInit ==
    /\ pc["main"] = "db_init"
    /\ \/ Goto("main", "symbols_req") /\ UNCHANGED ret
       \/ Return("main", "err")
    /\ UNCHANGED <<reqVars, clientVars, stateVars, dbVars, placed,
                   tradeVars, flushVars, snap, nCalls>>
    /\ UNCHANGED <<executed, fn>>

\* NewClient going on to c.Accounts() although c.Symbols() returned an error
SymbolsRetIgnoresError ==
    /\ pc["main"] = "symbols_ret"
    /\ symbols' = res["main"].lst
    /\ Goto("main", "accounts_req")
    /\ UNCHANGED ret
    /\ ClearReq("main")
    /\ UNCHANGED <<accounts, stateVars, dbVars, placed, tradeVars,
                   flushVars, snap, nCalls>>
    /\ UNCHANGED <<executed, fn>>

\* NewClient: symbols, err := c.Symbols(); c.symbols = symbols
SymbolsRet ==
    /\ pc["main"] = "symbols_ret"
    /\ IF res["main"].kind = "err"
       THEN Return("main", "err") /\ UNCHANGED symbols
       ELSE /\ symbols' = res["main"].lst
            /\ Goto("main", "accounts_req")
            /\ UNCHANGED ret
    /\ ClearReq("main")
    /\ UNCHANGED <<accounts, stateVars, dbVars, placed, tradeVars,
                   flushVars, snap, nCalls>>
    /\ UNCHANGED <<executed, fn>>

\* NewClient: accounts, err := c.Accounts(); c.accounts = accounts;
\* then execute creates the period (NewDaily(0, 0, 0)) and calls plan.New
AccountsRet ==
    /\ pc["main"] = "accounts_ret"
    /\ IF res["main"].kind = "err"
       THEN Return("main", "err") /\ UNCHANGED accounts
       ELSE /\ accounts' = res["main"].lst
            /\ Goto("main", "summary")
            /\ UNCHANGED ret
    /\ ClearReq("main")
    /\ UNCHANGED <<symbols, stateVars, dbVars, placed, tradeVars,
                   flushVars, snap, nCalls>>
    /\ UNCHANGED <<executed, fn>>

\* ------------------------------------- the client in the hands of a caller
\* NewClient has returned the client: the statement after it
Constructed ==
    pc["main"] \in {"summary", "symbols_call_req", "symbols_call_ret",
                    "accounts_call_req", "accounts_call_ret"}

\* a caller of the package calls c.Symbols() on the client it was given:
\* the cached list when it is not empty, else the request
SymbolsCall ==
    /\ pc["main"] = "summary"
    /\ nCalls < MaxCalls
    /\ nCalls' = nCalls + 1
    /\ IF Len(symbols) # 0
       THEN /\ fn' = [NoFn EXCEPT !.name = "Symbols", !.obj = symbols]
            /\ UNCHANGED pc
       ELSE /\ fn' = [NoFn EXCEPT !.name = "Symbols"]
            /\ Goto("main", "symbols_call_req")
    /\ UNCHANGED <<reqVars, clientVars, stateVars, dbVars, placed, tradeVars,
                   flushVars, snap, ret, executed>>

\* Symbols after its req: the error, or r.Data; c.symbols is not assigned
SymbolsCallRet ==
    /\ pc["main"] = "symbols_call_ret"
    /\ fn' = [fn EXCEPT !.err = (res["main"].kind = "err"),
                        !.obj = res["main"].lst]
    /\ Goto("main", "summary")
    /\ ClearReq("main")
    /\ UNCHANGED <<clientVars, stateVars, dbVars, placed, tradeVars,
                   flushVars, snap, ret, nCalls, executed>>

\* a caller of the package calls c.Accounts() on the client it was given
AccountsCall ==
    /\ pc["main"] = "summary"
    /\ nCalls < MaxCalls
    /\ nCalls' = nCalls + 1
    /\ IF Len(accounts) # 0
       THEN /\ fn' = [NoFn EXCEPT !.name = "Accounts", !.obj = accounts]
            /\ UNCHANGED pc
       ELSE /\ fn' = [NoFn EXCEPT !.name = "Accounts"]
            /\ Goto("main", "accounts_call_req")
    /\ UNCHANGED <<reqVars, clientVars, stateVars, dbVars, placed, tradeVars,
                   flushVars, snap, ret, executed>>

\* Accounts after its req: the error, or r.Data; c.accounts is not assigned
AccountsCallRet ==
    /\ pc["main"] = "accounts_call_ret"
    /\ fn' = [fn EXCEPT !.err = (res["main"].kind = "err"),
                        !.obj = res["main"].lst]
    /\ Goto("main", "summary")
    /\ ClearReq("main")
    /\ UNCHANGED <<clientVars, stateVars, dbVars, placed, tradeVars,
                   flushVars, snap, ret, nCalls, executed>>

\* a caller of the package calls c.SpotAccountID() on the client it was
\* given: the id the loop found, or 0 and errAccountNotFound when id is 0
SpotAccountIDCall ==
    /\ pc["main"] = "summary"
    /\ nCalls < MaxCalls
    /\ nCalls' = nCalls + 1
    /\ fn' = [NoFn EXCEPT !.name = "SpotAccountID", !.err = (SpotID = 0),
                          !.obj = <<SpotID>>]
    /\ UNCHANGED <<pc, reqVars, clientVars, stateVars, dbVars, placed, tradeVars,
                   flushVars, snap, ret, executed>>

\* stateInit assigning the two results of OrderSummary the wrong way round
stateInitSwapped ==
    /\ pc["main"] = "summary"
    /\ \E dbok \in BOOLEAN :
         LET s == OrderSummary(orders)
         IN  IF s.err \/ ~dbok
             THEN Return("main", IF ~dbok THEN "err"
                                 ELSE "converting NULL to float64")
                  /\ UNCHANGED <<position, investment, updated>>
             ELSE /\ position' = s.investment
                  /\ investment' = s.position
                  /\ updated' = Now
                  /\ Goto("main", "price_req")
                  /\ UNCHANGED ret
    /\ UNCHANGED <<reqVars, clientVars, price, equity, dbVars, placed,
                   tradeVars, flushVars, snap, nCalls>>
    /\ UNCHANGED <<executed, fn>>

\* plan.stateInit up to the call of stateFlush; OrderSummary fails when the
\* query fails, and when Scan meets the NULL of a SUM over no rows
stateInit ==
    /\ pc["main"] = "summary"
    /\ \E dbok \in BOOLEAN :
         LET s == OrderSummary(orders)
         IN  IF s.err \/ ~dbok
             THEN Return("main", IF ~dbok THEN "err"
                                 ELSE "converting NULL to float64")
                  /\ UNCHANGED <<position, investment, updated>>
             ELSE /\ position' = s.position
                  /\ investment' = s.investment
                  /\ updated' = Now
                  /\ Goto("main", "price_req")
                  /\ UNCHANGED ret
    /\ UNCHANGED <<reqVars, clientVars, price, equity, dbVars, placed,
                   tradeVars, flushVars, snap, nCalls>>
    /\ UNCHANGED <<executed, fn>>

\* ----------------------------------------------------------- stateFlush
\* where a thread goes when its stateFlush has returned nil
FlushDone(p) ==
    CASE p = "main" -> Goto(p, "running") /\ UNCHANGED ret
      [] p = "invest" -> Return(p, "nil")
      [] p = "monitor" -> Goto(p, "stat_pos") /\ UNCHANGED ret

\* stateFlush assigning what SymbolPrice returned before it looks at the error
FlushPriceAssignsFirst(p) ==
    /\ pc[p] = "price_ret"
    /\ IF res[p].kind = "err" \/ Len(res[p].lst) = 0
       THEN Return(p, "err") /\ price' = 0 /\ UNCHANGED lprice
       ELSE /\ price' = res[p].lst[1]
            /\ lprice' = [lprice EXCEPT ![p] = res[p].lst[1]]
            /\ Goto(p, "flush_read")
            /\ UNCHANGED ret
    /\ ClearReq(p)
    /\ UNCHANGED <<clientVars, position, investment, equity, updated, dbVars,
                   placed, tradeVars, lpos, snap, nCalls>>
    /\ UNCHANGED <<executed, fn>>

\* SymbolPrice after its req (the error of req or of decode; with no tick
\* data errSymbolPriceFailed), and p.state.price = price
FlushPrice(p) ==
    /\ pc[p] = "price_ret"
    /\ IF res[p].kind = "err" \/ Len(res[p].lst) = 0
       THEN /\ Return(p, IF res[p].kind = "err" THEN "err"
                          ELSE "get symbol price failed")
            /\ UNCHANGED <<price, lprice>>
       ELSE /\ price' = res[p].lst[1]
            /\ lprice' = [lprice EXCEPT ![p] = res[p].lst[1]]
            /\ Goto(p, "flush_read")
            /\ UNCHANGED ret
    /\ ClearReq(p)
    /\ UNCHANGED <<clientVars, position, investment, equity, updated, dbVars,
                   placed, tradeVars, lpos, snap, nCalls>>
    /\ UNCHANGED <<executed, fn>>

\* price * p.state.position: the read of position
FlushRead(p) ==
    /\ pc[p] = "flush_read"
    /\ lpos' = [lpos EXCEPT ![p] = position]
    /\ Goto(p, "flush_write")
    /\ UNCHANGED <<reqVars, clientVars, stateVars, dbVars, placed,
                   tradeVars, lprice, snap, ret, nCalls>>
    /\ UNCHANGED <<executed, fn>>

\* p.state.equity = ...; p.state.updated = time.Now().Unix(); return nil
FlushWrite(p) ==
    /\ pc[p] = "flush_write"
    /\ equity' = lprice[p] * lpos[p]
    /\ updated' = Now
    /\ lprice' = [lprice EXCEPT ![p] = 0]
    /\ lpos' = [lpos EXCEPT ![p] = 0]
    /\ FlushDone(p)
    /\ UNCHANGED <<reqVars, clientVars, position, investment, price, dbVars,
                   placed, tradeVars, snap, nCalls>>
    /\ UNCHANGED <<executed, fn>>

\* ---------------------------------------------------------------- Invest
\* run: the investment cron fires and its goroutine calls p.Invest()
InvestFire ==
    /\ pc["main"] = "running"
    /\ pc["invest"] = "idle"
    /\ nCalls < MaxCalls
    /\ nCalls' = nCalls + 1
    /\ Goto("invest", "trade")
    /\ ret' = [ret EXCEPT !["invest"] = "none"]
    /\ UNCHANGED <<reqVars, clientVars, stateVars, dbVars, placed,
                   tradeVars, flushVars, snap>>
    /\ UNCHANGED <<executed, fn>>

\* Trade building the request without looking at what Symbol and
\* SpotAccountID returned
TradeResolveNoCheck ==
    /\ pc["invest"] = "trade"
    /\ Goto("invest", "place_req") /\ UNCHANGED ret
    /\ placed' = 0
    /\ UNCHANGED <<reqVars, clientVars, stateVars, dbVars, tradeVars,
                   flushVars, snap, nCalls>>
    /\ UNCHANGED <<executed, fn>>

\* Trade: c.Symbol(symbol), c.SpotAccountID(), the request parameters
TradeResolve ==
    /\ pc["invest"] = "trade"
    /\ IF ~SymbolFound(PlanSymbol)
       THEN Return("invest", "symbol not found")
       ELSE IF ~SpotAccountFound
       THEN Return("invest", "account not found")
       ELSE Goto("invest", "place_req") /\ UNCHANGED ret
    /\ placed' = 0
    /\ UNCHANGED <<reqVars, clientVars, stateVars, dbVars, tradeVars,
                   flushVars, snap, nCalls>>
    /\ UNCHANGED <<executed, fn>>

\* Trade going on to the sleep and the fetch although the placement failed
PlaceRetIgnoresError ==
    /\ pc["invest"] = "place_ret"
    /\ oid' = res["invest"].num
    /\ Goto("invest", "sleep")
    /\ UNCHANGED ret
    /\ placed' = placed
    /\ ClearReq("invest")
    /\ UNCHANGED <<clientVars, stateVars, dbVars, fill, order, flushVars, snap,
                   nCalls>>
    /\ UNCHANGED <<executed, fn>>

\* Trade: the placement returned; r.Data is the order id
PlaceRet ==
    /\ pc["invest"] = "place_ret"
    /\ IF res["invest"].kind = "err"
       THEN Return("invest", "err") /\ UNCHANGED oid
       ELSE /\ oid' = res["invest"].num
            /\ Goto("invest", "sleep")
            /\ UNCHANGED ret
    /\ placed' = IF res["invest"].kind = "err" THEN 0 ELSE placed
    /\ ClearReq("invest")
    /\ UNCHANGED <<clientVars, stateVars, dbVars, fill, order, flushVars, snap,
                   nCalls>>
    /\ UNCHANGED <<executed, fn>>

\* Trade: time.Sleep(time.Second * 5), then c.OpenOrder(r.Data)
Sleep ==
    /\ pc["invest"] = "sleep"
    /\ Goto("invest", "order_req")
    /\ UNCHANGED <<reqVars, clientVars, stateVars, dbVars, placed,
                   tradeVars, flushVars, snap, ret, nCalls>>
    /\ UNCHANGED <<executed, fn>>

\* Invest going on with the zero order although Trade returned an error
OrderRetIgnoresError ==
    /\ pc["invest"] = "order_ret"
    /\ fill' = res["invest"].ord
    /\ order' = Normalize(res["invest"].ord)
    /\ Goto("invest", "add_order")
    /\ UNCHANGED <<oid, ret>>
    /\ placed' = 0
    /\ ClearReq("invest")
    /\ UNCHANGED <<clientVars, stateVars, dbVars, flushVars, snap, nCalls>>
    /\ UNCHANGED <<executed, fn>>

\* OpenOrder returned; Trade returns the order to Invest, which negates the
\* amounts of a sell fill
OrderRet ==
    /\ pc["invest"] = "order_ret"
    /\ IF res["invest"].kind = "err"
       THEN /\ Return("invest", "err")
            /\ oid' = 0
            /\ UNCHANGED <<fill, order>>
       ELSE /\ fill' = res["invest"].ord
            /\ order' = Normalize(res["invest"].ord)
            /\ Goto("invest", "add_order")
            /\ UNCHANGED <<oid, ret>>
    /\ placed' = 0
    /\ ClearReq("invest")
    /\ UNCHANGED <<clientVars, stateVars, dbVars, flushVars, snap, nCalls>>
    /\ UNCHANGED <<executed, fn>>

\* Invest going on to stateUpdate although addOrder returned an error
addOrderIgnoresError ==
    /\ pc["invest"] = "add_order"
    /\ \E dbok \in BOOLEAN :
         /\ orders' = IF dbok /\ order.ID \notin OrderIDs(orders)
                      THEN orders \cup {OrderRecord(order)}
                      ELSE orders
         /\ Goto("invest", "upd_pos")
         /\ UNCHANGED <<ret, tradeVars>>
    /\ UNCHANGED <<reqVars, clientVars, stateVars, statistics, placed,
                   flushVars, snap, nCalls>>
    /\ UNCHANGED <<executed, fn>>

\* Invest calling stateFlush when addOrder returned an error
addOrderFlushesOnError ==
    /\ pc["invest"] = "add_order"
    /\ \E dbok \in BOOLEAN :
         IF dbok /\ order.ID \notin OrderIDs(orders)
         THEN /\ orders' = orders \cup {OrderRecord(order)}
              /\ Goto("invest", "upd_pos")
              /\ UNCHANGED <<ret, tradeVars>>
         ELSE /\ Goto("invest", "price_req")
              /\ oid' = 0
              /\ fill' = NoOrder
              /\ order' = NoOrder
              /\ UNCHANGED <<orders, ret>>
    /\ UNCHANGED <<reqVars, clientVars, stateVars, statistics, placed,
                   flushVars, snap, nCalls>>
    /\ UNCHANGED <<executed, fn>>

\* Invest: p.addOrder(order), the INSERT of db.AddOrder (id is the primary key)
addOrder ==
    /\ pc["invest"] = "add_order"
    /\ \E dbok \in BOOLEAN :
         IF dbok /\ order.ID \notin OrderIDs(orders)
         THEN /\ orders' = orders \cup {OrderRecord(order)}
              /\ Goto("invest", "upd_pos")
              /\ UNCHANGED <<ret, tradeVars>>
         ELSE /\ Return("invest", "AddOrder")
              /\ oid' = 0
              /\ fill' = NoOrder
              /\ order' = NoOrder
              /\ UNCHANGED orders
    /\ UNCHANGED <<reqVars, clientVars, stateVars, statistics, placed,
                   flushVars, snap, nCalls>>
    /\ UNCHANGED <<executed, fn>>

\* stateUpdate: p.state.position += order.FieldAmount
UpdatePosition ==
    /\ pc["invest"] = "upd_pos"
    /\ position' = position + order.FieldAmount
    /\ Goto("invest", "upd_inv")
    /\ UNCHANGED <<reqVars, clientVars, investment, price, equity, updated,
                   dbVars, placed, tradeVars, flushVars, snap, ret,
                   nCalls>>
    /\ UNCHANGED <<executed, fn>>

\* stateUpdate: p.state.investment += order.FieldCashAmount; updated = now;
\* then stateFlush
UpdateInvestment ==
    /\ pc["invest"] = "upd_inv"
    /\ investment' = investment + order.FieldCashAmount
    /\ updated' = Now
    /\ oid' = 0
    /\ fill' = NoOrder
    /\ order' = NoOrder
    /\ Goto("invest", "price_req")
    /\ UNCHANGED <<reqVars, clientVars, position, price, equity, dbVars,
                   placed, flushVars, snap, ret, nCalls>>
    /\ UNCHANGED <<executed, fn>>

\* --------------------------------------------------------------- Monitor
\* Monitor waiting at its start until no Invest is in progress
MonitorFireWaitsForInvest ==
    /\ pc["main"] = "running"
    /\ pc["monitor"] = "idle"
    /\ pc["invest"] = "idle"
    /\ nCalls < MaxCalls
    /\ nCalls' = nCalls + 1
    /\ Goto("monitor", "price_req")
    /\ ret' = [ret EXCEPT !["monitor"] = "none"]
    /\ UNCHANGED <<reqVars, clientVars, stateVars, dbVars, placed,
                   tradeVars, flushVars, snap>>
    /\ UNCHANGED <<executed, fn>>

\* run: the monitor cron fires and its goroutine calls p.Monitor()
MonitorFire ==
    /\ pc["main"] = "running"
    /\ pc["monitor"] = "idle"
    /\ nCalls < MaxCalls
    /\ nCalls' = nCalls + 1
    /\ Goto("monitor", "price_req")
    /\ ret' = [ret EXCEPT !["monitor"] = "none"]
    /\ UNCHANGED <<reqVars, clientVars, stateVars, dbVars, placed,
                   tradeVars, flushVars, snap>>
    /\ UNCHANGED <<executed, fn>>

\* addStatistics: Position: p.state.position
StatPosition ==
    /\ pc["monitor"] = "stat_pos"
    /\ snap' = [snap EXCEPT !.Position = position]
    /\ Goto("monitor", "stat_inv")
    /\ UNCHANGED <<reqVars, clientVars, stateVars, dbVars, placed,
                   tradeVars, flushVars, ret, nCalls>>
    /\ UNCHANGED <<executed, fn>>

\* addStatistics: Investment: p.state.investment
StatInvestment ==
    /\ pc["monitor"] = "stat_inv"
    /\ snap' = [snap EXCEPT !.Investment = investment]
    /\ Goto("monitor", "stat_price")
    /\ UNCHANGED <<reqVars, clientVars, stateVars, dbVars, placed,
                   tradeVars, flushVars, ret, nCalls>>
    /\ UNCHANGED <<executed, fn>>

\* addStatistics: Price: p.state.price
StatPrice ==
    /\ pc["monitor"] = "stat_price"
    /\ snap' = [snap EXCEPT !.Price = price]
    /\ Goto("monitor", "stat_insert")
    /\ UNCHANGED <<reqVars, clientVars, stateVars, dbVars, placed,
                   tradeVars, flushVars, ret, nCalls>>
    /\ UNCHANGED <<executed, fn>>

\* addStatistics: Equity: p.state.equity, Created: p.state.updated, and the
\* INSERT of db.AddStatistics; Monitor returns
StatInsert ==
    /\ pc["monitor"] = "stat_insert"
    /\ \E dbok \in BOOLEAN :
         IF dbok
         THEN /\ statistics' = Append(statistics, StatisticsRow(
                    [snap EXCEPT !.Equity = equity, !.Created = updated]))
              /\ Return("monitor", "nil")
         ELSE /\ Return("monitor", "err")
              /\ UNCHANGED statistics
    /\ snap' = NoSnap
    /\ UNCHANGED <<reqVars, clientVars, stateVars, orders, placed,
                   tradeVars, flushVars, nCalls>>
    /\ UNCHANGED <<executed, fn>>

Next ==
    \/ DbInit
    \/ SymbolsRet
    \/ AccountsRet
    \/ stateInit
    \/ \E p \in Procs : Do(p)
    \/ ExchangeFill
    \/ \E p \in Procs : FlushPrice(p)
    \/ \E p \in Procs : FlushRead(p)
    \/ \E p \in Procs : FlushWrite(p)
    \/ InvestFire
    \/ TradeResolve
    \/ PlaceRet
    \/ Sleep
    \/ OrderRet
    \/ addOrder
    \/ UpdatePosition
    \/ UpdateInvestment
    \/ MonitorFire
    \/ StatPosition
    \/ StatInvestment
    \/ StatPrice
    \/ StatInsert

Spec == Init /\ [][Next]_vars

\* ------------------------------------------- strings and numbers in them
\* a string is the sequence of its characters
DigitChars == <<"0", "1", "2", "3", "4", "5", "6", "7", "8", "9">>

\* fmt's %d, strconv's digits of a non-negative integer
RECURSIVE Itoa(_)
Itoa(n) ==
    IF n < 10 THEN <<DigitChars[n + 1]>>
    ELSE Itoa(n \div 10) \o <<DigitChars[(n % 10) + 1]>>

\* strings.Join(fields, " "), which is what the blanks of the format do
RECURSIVE JoinBlank(_)
JoinBlank(fields) ==
    IF Len(fields) = 0 THEN <<>>
    ELSE IF Len(fields) = 1 THEN fields[1]
    ELSE fields[1] \o <<" ">> \o JoinBlank(Tail(fields))

RECURSIVE Pow10(_)
Pow10(n) == IF n = 0 THEN 1 ELSE 10 * Pow10(n - 1)

RECURSIVE Pow2(_)
Pow2(n) == IF n = 0 THEN 1 ELSE 2 * Pow2(n - 1)

\* ------------------------------------------------ package plan: periods
\* hour, minute, second are uint8: the values a caller can pass
TimeArgs == {0, 7, 23, 24, 34, 56, 59, 60, 255}
\* time.Weekday values: Sunday, Monday, Saturday
Weekdays == {0, 1, 6}
\* day of the month, uint8
Days == {1, 31}

NoPeriod ==
    [kind |-> "", hour |-> 0, minute |-> 0, second |-> 0, weekday |-> 0, day |-> 0]

\* mustBetween with the upper end excluded
mustBetweenExclusive(value, from, to) == value < from \/ value >= to

\* mustBetween: TRUE when it returns an error
mustBetween(value, from, to) == value < from \/ value > to

\* validateTime: "" is nil
validateTime(hour, minute, second) ==
    IF mustBetween(hour, 0, 23) THEN "invalid hour"
    ELSE IF mustBetween(minute, 0, 59) THEN "invalid minute"
    ELSE IF mustBetween(second, 0, 59) THEN "invalid second"
    ELSE ""

NewDaily(hour, minute, second) ==
    IF validateTime(hour, minute, second) # ""
    THEN [err |-> TRUE, obj |-> NoPeriod]
    ELSE [err |-> FALSE,
          obj |-> [NoPeriod EXCEPT !.kind = "Daily", !.hour = hour,
                                   !.minute = minute, !.second = second]]

NewWeekly(weekday, hour, minute, second) ==
    IF validateTime(hour, minute, second) # ""
    THEN [err |-> TRUE, obj |-> NoPeriod]
    ELSE [err |-> FALSE,
          obj |-> [NoPeriod EXCEPT !.kind = "Weekly", !.weekday = weekday,
                                   !.hour = hour, !.minute = minute,
                                   !.second = second]]

NewMonthly(day, hour, minute, second) ==
    IF validateTime(hour, minute, second) # ""
    THEN [err |-> TRUE, obj |-> NoPeriod]
    ELSE [err |-> FALSE,
          obj |-> [NoPeriod EXCEPT !.kind = "Monthly", !.day = day,
                                   !.hour = hour, !.minute = minute,
                                   !.second = second]]

\* Schedule with the time fields in the order hour, minute, second
ScheduleHourFirst(p) ==
    CASE p.kind = "Daily" ->
           JoinBlank(<<Itoa(p.hour), Itoa(p.minute), Itoa(p.second),
                       <<"*">>, <<"*">>, <<"*">>>>)
      [] p.kind = "Weekly" ->
           JoinBlank(<<Itoa(p.hour), Itoa(p.minute), Itoa(p.second),
                       <<"*">>, <<"*">>, Itoa(p.weekday)>>)
      [] p.kind = "Monthly" ->
           JoinBlank(<<Itoa(p.hour), Itoa(p.minute), Itoa(p.second),
                       Itoa(p.day), <<"*">>, <<"*">>>>)

\* Daily.Schedule, Weekly.Schedule, Monthly.Schedule: fmt.Sprintf of
\* "%d %d %d * * *", "%d %d %d * * %d", "%d %d %d %d * *"
Schedule(p) ==
    CASE p.kind = "Daily" ->
           JoinBlank(<<Itoa(p.second), Itoa(p.minute), Itoa(p.hour),
                       <<"*">>, <<"*">>, <<"*">>>>)
      [] p.kind = "Weekly" ->
           JoinBlank(<<Itoa(p.second), Itoa(p.minute), Itoa(p.hour),
                       <<"*">>, <<"*">>, Itoa(p.weekday)>>)
      [] p.kind = "Monthly" ->
           JoinBlank(<<Itoa(p.second), Itoa(p.minute), Itoa(p.hour),
                       Itoa(p.day), <<"*">>, <<"*">>>>)

\* ------------------------------------------------ package huobi: floor
\* A float64 is a binary fraction with a 53-bit significand; here it is one
\* with a significand of MantissaBits bits, written as its numerator over
\* 2^FracBits, and every arithmetic result is rounded to the nearest such
\* fraction, ties to the even significand, as IEEE 754 does.
MantissaBits == 10
FracBits == 10
\* the largest numerator of an argument of floor
MaxNum == 1100
\* the largest precision of a symbol
MaxPrec == 2

RECURSIVE BitLen(_)
BitLen(n) == IF n = 0 THEN 0 ELSE 1 + BitLen(n \div 2)

\* the numerator q rounded to MantissaBits significant bits
RoundToMantissa(q) ==
    IF BitLen(q) <= MantissaBits THEN q
    ELSE LET u == Pow2(BitLen(q) - MantissaBits)
             lo == (q \div u) * u
             rem == q - lo
         IN  IF 2 * rem < u THEN lo
             ELSE IF 2 * rem > u THEN lo + u
             ELSE IF (q \div u) % 2 = 0 THEN lo ELSE lo + u

\* the float64 values floor is given: numerators of exact floats
Floats == {n \in 0..MaxNum : RoundToMantissa(n) = n}

\* the digits after the point without their trailing zeros
RECURSIVE TrimZeros(_)
TrimZeros(ds) ==
    IF Len(ds) = 0 THEN ds
    ELSE IF ds[Len(ds)] = "0" THEN TrimZeros(SubSeq(ds, 1, Len(ds) - 1))
    ELSE ds

\* the digits of n, with zeros in front up to the width w
RECURSIVE ZeroPad(_, _)
ZeroPad(ds, w) == IF Len(ds) >= w THEN ds ELSE ZeroPad(<<"0">> \o ds, w)

\* strconv.FormatFloat(k / i, 'f', -1, 64) for an integer k and i = 10^prec:
\* k / i is the float nearest to the decimal k * 10^-prec, and the shortest
\* decimal that parses back to that float is that decimal without its
\* trailing zeros
FormatFloat(k, prec) ==
    LET frac == TrimZeros(ZeroPad(Itoa(k % Pow10(prec)), prec))
    IN  IF Len(frac) = 0 THEN Itoa(k \div Pow10(prec))
        ELSE Itoa(k \div Pow10(prec)) \o <<".">> \o frac

\* floor(f, prec): i := math.Pow10(prec); math.Floor(f*i)/i formatted.
\* f*i is the exact product rounded to a float; math.Floor is exact.
floor(f, prec) ==
    LET i == Pow10(prec)
        fi == RoundToMantissa(f * i)
    IN  FormatFloat(fi \div Pow2(FracBits), prec)

\* ------------------------------------------ the functions called alone
\* one call in a behaviour: a function is called when none has been called
progVars ==
    <<pc, reqVars, clientVars, stateVars, dbVars, placed, tradeVars, flushVars,
      snap, ret, nCalls, executed>>

CallNewDaily ==
    /\ fn = NoFn
    /\ \E h \in TimeArgs, m \in TimeArgs, sec \in TimeArgs :
         LET r == NewDaily(h, m, sec)
         IN  fn' = [name |-> "NewDaily", args |-> <<h, m, sec>>,
                    err |-> r.err, obj |-> r.obj, str |-> <<>>]
    /\ UNCHANGED progVars

CallNewWeekly ==
    /\ fn = NoFn
    /\ \E w \in Weekdays, h \in TimeArgs, m \in TimeArgs, sec \in TimeArgs :
         LET r == NewWeekly(w, h, m, sec)
         IN  fn' = [name |-> "NewWeekly", args |-> <<w, h, m, sec>>,
                    err |-> r.err, obj |-> r.obj, str |-> <<>>]
    /\ UNCHANGED progVars

CallNewMonthly ==
    /\ fn = NoFn
    /\ \E d \in Days, h \in TimeArgs, m \in TimeArgs, sec \in TimeArgs :
         LET r == NewMonthly(d, h, m, sec)
         IN  fn' = [name |-> "NewMonthly", args |-> <<d, h, m, sec>>,
                    err |-> r.err, obj |-> r.obj, str |-> <<>>]
    /\ UNCHANGED progVars

\* p.Schedule() on the Period a constructor returned
CallSchedule ==
    /\ fn.name \in {"NewDaily", "NewWeekly", "NewMonthly"}
    /\ ~fn.err
    /\ fn.str = <<>>
    /\ fn' = [fn EXCEPT !.str = Schedule(fn.obj)]
    /\ UNCHANGED progVars

CallFloor ==
    /\ fn = NoFn
    /\ \E f \in Floats, prec \in 0..MaxPrec :
         fn' = [name |-> "floor", args |-> <<f, prec>>, err |-> FALSE,
                obj |-> NoPeriod, str |-> floor(f, prec)]
    /\ UNCHANGED progVars

\* ------------------------------------------------ the package huobi alone
\* a caller constructs a client with NewClient and then calls Symbols and
\* Accounts on it, as the tests of the package do
ClientInit ==
    /\ pc = [p \in Procs |-> IF p = "main" THEN "symbols_req" ELSE "idle"]
    /\ retry = [p \in Procs |-> 0]
    /\ attempts = [p \in Procs |-> 0]
    /\ res = [p \in Procs |-> NoRes]
    /\ symbols = <<>>
    /\ accounts = <<>>
    /\ position = 0
    /\ investment = 0
    /\ price = 0
    /\ equity = 0
    /\ updated = 0
    /\ orders = {}
    /\ statistics = <<>>
    /\ placed = 0
    /\ oid = 0
    /\ fill = NoOrder
    /\ order = NoOrder
    /\ lprice = [p \in Procs |-> 0]
    /\ lpos = [p \in Procs |-> 0]
    /\ snap = NoSnap
    /\ ret = [p \in Procs |-> "none"]
    /\ nCalls = 0
    /\ executed = NoExecuted
    /\ fn = NoFn

ClientNext ==
    \/ \E p \in Procs : Do(p)
    \/ SymbolsRet
    \/ AccountsRet
    \/ SymbolsCall
    \/ SymbolsCallRet
    \/ AccountsCall
    \/ AccountsCallRet
    \/ SpotAccountIDCall

ClientSpec == ClientInit /\ [][ClientNext]_vars

\* ------------------------------- the functions of the packages alone
\* the program's state plays no part in them
PureInit == ClientInit

PureNext ==
    \/ CallNewDaily
    \/ CallNewWeekly
    \/ CallNewMonthly
    \/ CallSchedule
    \/ CallFloor

PureSpec == PureInit /\ [][PureNext]_vars

\* ================================================================ claims
Ready == pc["main"] = "running"
InBody(p) == pc[p] # "idle"
RetLabels == {RetLabel(l) : l \in ReqLabels}
Returned(p) == pc[p] \in RetLabels
TransportErrors == {"timeout", "reset", "other"}

\* C1: at most one of Invest and Monitor is executing at any instant.
C1_MutualExclusion == ~(InBody("invest") /\ InBody("monitor"))

\* C2: when the calls fired so far have all returned, position, investment,
\* price, equity and the Order and Statistics records are what some serial
\* execution of those calls produces.  A serial execution starts from the plan
\* New returned and runs, one after the other and in any order, one Invest for
\* each order this run persisted, one Monitor for each Statistics row, and up
\* to as many further Monitor calls as the remaining firings allow, each whose
\* insert failed; a call that failed earlier changes nothing.  t = 0 stands
\* for a failed price lookup.
Prices == {l[1] : l \in TickLists \ {<<>>}}

SerialInvest(s, row, t) ==
    LET pos == s.position + row.BaseAmount
        inv == s.investment + row.QuoteAmount
    IN  IF t = 0
        THEN [s EXCEPT !.position = pos, !.investment = inv]
        ELSE [s EXCEPT !.position = pos, !.investment = inv,
                       !.price = t, !.equity = t * pos]

SerialMonitor(s, t, dbok) ==
    LET f == [s EXCEPT !.price = t, !.equity = t * s.position]
    IN  IF dbok
        THEN [f EXCEPT !.statistics = Append(@,
                 [Position |-> f.position, Investment |-> f.investment,
                  Price |-> f.price, Equity |-> f.equity])]
        ELSE f

RECURSIVE SerialOutcomes(_, _, _, _)
SerialOutcomes(s, rows, m, g) ==
    (IF rows = {} /\ m = 0 THEN {s} ELSE {})
    \cup UNION {SerialOutcomes(SerialInvest(s, r, t), rows \ {r}, m, g) :
                  r \in rows, t \in Prices \cup {0}}
    \cup (IF m > 0
          THEN UNION {SerialOutcomes(SerialMonitor(s, t, TRUE), rows, m - 1, g) :
                        t \in Prices}
          ELSE {})
    \cup (IF g > 0
          THEN UNION {SerialOutcomes(SerialMonitor(s, t, FALSE), rows, m, g - 1) :
                        t \in Prices}
          ELSE {})

C2_Serializable ==
    (Ready /\ ~InBody("invest") /\ ~InBody("monitor"))
       => LET new == {r \in orders : r.ID <= MaxCalls}
              seed == orders \ new
              m == Len(statistics)
              starts == {[position |-> SumBase(seed), investment |-> SumQuote(seed),
                          price |-> t, equity |-> t * SumBase(seed),
                          statistics |-> <<>>] : t \in Prices}
              now == [position |-> position, investment |-> investment,
                      price |-> price, equity |-> equity,
                      statistics |-> statistics]
          IN  \E s0 \in starts :
                now \in SerialOutcomes(s0, new, m, nCalls - Cardinality(new) - m)

\* C3: whenever no Invest or Monitor call is in progress on a constructed plan
\* (every call made has returned, with or without an error),
\* equity = price * position.
C3_EquityInvariant ==
    (Ready /\ ~InBody("invest") /\ ~InBody("monitor"))
        => equity = price * position

\* C4: a req makes at most 3 client.Do attempts; one whose first two attempts
\* timed out (or were reset) and whose third got a response returns after
\* exactly 3 attempts with what that response decodes to; a timeout (or reset)
\* is surfaced only after 3 attempts.
C4_RetryBound ==
    \A p \in Procs :
       /\ attempts[p] <= RetryLimit
       /\ (Returned(p) /\ res[p].why \in {"timeout", "reset"})
             => (attempts[p] = RetryLimit /\ res[p].kind = "err")
       /\ (Returned(p) /\ retry[p] = 2 /\ res[p].why \notin TransportErrors)
             => (attempts[p] = 3 /\ (res[p].status = "ok" <=> res[p].kind = "ok"))

\* C4 witness: a req returned its data on the third attempt, after two
\* attempts that timed out or were reset.
C4_Witness ==
    \E p \in Procs :
       Returned(p) /\ retry[p] = 2 /\ attempts[p] = 3 /\ res[p].kind = "ok"

\* C5: for one Trade call the exchange accepts at most one placement request.
C5_NoResubmit == placed <= 1

\* C6: a response whose status is not "ok" ends the req at once: req returns
\* an error with the exchange's code and no data, and the attempt that got
\* the response is the last one.
C6_ExchangeErrorSurfaced ==
    \A p \in Procs :
       (Returned(p) /\ (res[p].status = "error" \/ res[p].why = "api"))
          => /\ res[p].kind = "err"
             /\ res[p].why = "api"
             /\ res[p].code = ErrBody.code
             /\ res[p].num = 0 /\ res[p].ord = NoOrder /\ res[p].lst = <<>>
             /\ attempts[p] = retry[p] + 1

\* C6 witness: the placement request of a Trade got an exchange error after
\* one transport retry.
C6_Witness ==
    /\ pc["invest"] = "place_ret"
    /\ res["invest"].why = "api"
    /\ retry["invest"] = 1

\* C7: stateInit seeds position and investment with the aggregate OrderSummary
\* returns, the first stateFlush leaves them alone, and the plan New returns
\* has equity = price * position.
C7_InitSeedsAggregate ==
    LET s == OrderSummary(orders)
    IN  /\ (pc["main"] \in {"price_req", "price_ret", "flush_read", "flush_write"}
              \/ (Ready /\ nCalls = 0))
           => (~s.err /\ position = s.position /\ investment = s.investment)
        /\ (Ready /\ nCalls = 0) => equity = price * s.position

\* C7 witness: New returned a plan seeded from a ledger whose aggregate is
\* (1, 3), priced at 2.
C7_Witness ==
    /\ Ready /\ nCalls = 0
    /\ orders = {SeedBuy}
    /\ position = 1 /\ investment = 3 /\ price = 2 /\ equity = 2

\* C8: whenever no Invest is in progress on a constructed plan, OrderSummary
\* of the ledger returns the plan's position and investment, which is what a
\* restart would seed.
C8_TotalsMatchLedger ==
    (Ready /\ ~InBody("invest"))
       => LET s == OrderSummary(orders)
          IN  ~s.err /\ s.position = position /\ s.investment = investment

\* C8 witness: two Invest calls of this run have persisted their orders and
\* returned.
C8_Witness ==
    /\ Ready /\ ~InBody("invest")
    /\ Cardinality({r \in orders : r.ID <= MaxCalls}) = 2

\* C9: a failed construction (db, client, aggregate or first price lookup)
\* ends the process before any timer is started, so no Invest or Monitor runs
\* without a constructed plan; a constructed plan stays constructed, and its
\* position and investment change only by an Invest adding its order's amounts.
C9_Inv ==
    /\ (ret["main"] = "err") => pc["main"] = "fatal"
    /\ (pc["main"] # "running")
          => (~InBody("invest") /\ ~InBody("monitor") /\ nCalls = 0)
    /\ Ready => ~OrderSummary(orders).err
C9_Step ==
    Ready =>
      /\ Ready'
      /\ (position' # position)
            => (pc["invest"] = "upd_pos" /\ position' = position + order.FieldAmount)
      /\ (investment' # investment)
            => (pc["invest"] = "upd_inv"
                /\ investment' = investment + order.FieldCashAmount)
C9_ReadyOnlyAfterLoad == []C9_Inv /\ [][C9_Step]_vars

\* C9 witness: New failed at the first price lookup, after the aggregate was
\* loaded, and the process ended with no timer started.
C9_Witness ==
    /\ pc["main"] = "fatal"
    /\ orders = {SeedBuy} /\ investment = 3
    /\ nCalls = 0

\* C10: Invest folds the fill the exchange reported, with filled amounts b and
\* q, as -b and -q when its type is a sell and as b and q otherwise: into the
\* Order record it persists, into position and into investment.
SignedBase(f) ==
    IF f.Type \in {SellMarket, SellLimit} THEN 0 - f.FieldAmount ELSE f.FieldAmount
SignedQuote(f) ==
    IF f.Type \in {SellMarket, SellLimit}
    THEN 0 - f.FieldCashAmount ELSE f.FieldCashAmount
C10_Step ==
    /\ (pc["invest"] = "add_order" /\ pc'["invest"] = "upd_pos")
          => orders' = orders \cup
                {[ID |-> fill.ID, Type |-> fill.Type,
                  BaseAmount |-> SignedBase(fill), QuoteAmount |-> SignedQuote(fill)]}
    /\ (pc["invest"] = "upd_pos" /\ pc'["invest"] = "upd_inv")
          => position' = position + SignedBase(fill)
    /\ (pc["invest"] = "upd_inv" /\ pc'["invest"] = "price_req")
          => investment' = investment + SignedQuote(fill)
C10_SellNormalization == [][C10_Step]_vars

\* C10 witness: a sell-market fill of (1, 2) has been persisted as (-1, -2) and
\* has decreased position by 1.
C10_Witness ==
    /\ pc["invest"] = "upd_inv"
    /\ fill.Type = SellMarket /\ fill.FieldAmount = 1 /\ fill.FieldCashAmount = 2
    /\ \E r \in orders : r.ID = fill.ID /\ r.BaseAmount = -1 /\ r.QuoteAmount = -2
    /\ position = SumBase(orders \ {r \in orders : r.ID = fill.ID}) - 1

\* C11: when the insert of the Order record fails, Invest returns that error
\* at once, without a flush, and leaves position, investment, price, equity
\* and updated as they were; position and investment of a constructed plan
\* change only for an order whose record is in the ledger.
C11_Step ==
    /\ (pc["invest"] = "add_order" /\ pc'["invest"] # "add_order" /\ orders' = orders)
          => /\ pc'["invest"] = "idle"
             /\ ret'["invest"] = "AddOrder"
             /\ UNCHANGED stateVars
    /\ (Ready /\ (position' # position \/ investment' # investment))
          => OrderRecord(order) \in orders
C11_UpdateAfterPersistence == [][C11_Step]_vars

\* C11 witness: an Invest returned the error of AddOrder, and the ledger and
\* the plan's totals are still what New seeded.
C11_Witness ==
    /\ pc["invest"] = "idle" /\ ret["invest"] = "AddOrder"
    /\ orders = {SeedBuy}
    /\ position = 1 /\ investment = 3

\* C13: NewClient issues the account-list request only after the symbol-list
\* fetch succeeded, returns a client holding the two fetched lists only after
\* both succeeded, and ends with an error, caching nothing more, when either
\* fails.
C13_Step ==
    /\ (pc["main"] = "symbols_ret" /\ pc'["main"] # "symbols_ret")
          => IF res["main"].kind = "ok"
             THEN pc'["main"] = "accounts_req" /\ symbols' = res["main"].lst
             ELSE pc'["main"] = "fatal" /\ ret'["main"] = "err"
                  /\ UNCHANGED clientVars
    /\ (pc["main"] = "accounts_ret" /\ pc'["main"] # "accounts_ret")
          => IF res["main"].kind = "ok"
             THEN pc'["main"] = "summary" /\ accounts' = res["main"].lst
             ELSE pc'["main"] = "fatal" /\ ret'["main"] = "err"
                  /\ UNCHANGED clientVars
    /\ (pc'["main"] = "accounts_req" /\ pc["main"] # "accounts_req")
          => pc["main"] = "symbols_ret"
    /\ (pc'["main"] = "summary" /\ pc["main"] # "summary")
          => pc["main"] = "accounts_ret"
C13_ClientNeedsBothFetches == [][C13_Step]_vars

\* C13 witness: the symbol-list fetch succeeded and the account-list fetch
\* failed, and the process ended without a client.
C13_Witness ==
    /\ pc["main"] = "fatal"
    /\ symbols # <<>> /\ accounts = <<>>

\* C17: a req that returns a transport error that is neither a timeout nor a
\* connection reset returns it from the attempt that met it: that attempt is
\* not retried, so the attempts made are the earlier retried ones plus one.
C17_OtherErrorNotRetried ==
    \A p \in Procs :
       (Returned(p) /\ res[p].why = "other")
          => /\ res[p].kind = "err"
             /\ attempts[p] = retry[p] + 1
             /\ retry[p] < RetryLimit

\* C17 witness: a req returned such an error after exactly one attempt.
C17_Witness ==
    \E p \in Procs :
       Returned(p) /\ res[p].why = "other" /\ attempts[p] = 1 /\ retry[p] = 0

\* C18: when the plan's symbol is not in the cached symbol list, or the cached
\* account list has no account of type spot, Trade returns the corresponding
\* error without any request: no attempt is made and no order is placed.
C18_Step ==
    (pc["invest"] = "trade" /\ pc'["invest"] # "trade"
       /\ (~SymbolFound(PlanSymbol) \/ SpotIndexes = {}))
       => /\ pc'["invest"] = "idle"
          /\ ret'["invest"] = IF ~SymbolFound(PlanSymbol)
                              THEN "symbol not found" ELSE "account not found"
          /\ placed' = 0
          /\ UNCHANGED <<attempts, retry, res, oid>>
C18_ResolutionBeforePlacement == [][C18_Step]_vars

\* C18 witness: the cached symbol list has the symbol, the cached account list
\* has no spot account, and Trade returned account not found with no order
\* placed.
C18_Witness ==
    /\ pc["invest"] = "idle" /\ ret["invest"] = "account not found"
    /\ SymbolFound(PlanSymbol) /\ SpotIndexes = {}
    /\ placed = 0 /\ attempts["invest"] = 0

\* C19: Trade issues the fetch of the order only from the sleep, the sleep is
\* entered only when the placement returned an order id, which is the id
\* fetched, the order fetched ends the Trade (no second fetch), and a failed
\* placement ends the Trade with the error and no fetch.
C19_Step ==
    /\ (pc["invest"] = "place_ret" /\ pc'["invest"] # "place_ret")
          => IF res["invest"].kind = "ok"
             THEN pc'["invest"] = "sleep" /\ oid' = res["invest"].num
             ELSE pc'["invest"] = "idle" /\ ret'["invest"] = "err"
    /\ (pc'["invest"] = "sleep" /\ pc["invest"] # "sleep")
          => pc["invest"] = "place_ret"
    /\ (pc'["invest"] = "order_req" /\ pc["invest"] # "order_req")
          => (pc["invest"] = "sleep" /\ oid' = oid)
    /\ (pc["invest"] = "order_ret" /\ pc'["invest"] # "order_ret")
          => /\ pc'["invest"] \in {"add_order", "idle"}
             /\ pc'["invest"] = "add_order" => fill'.ID = oid
C19_SubmitWaitFetch == [][C19_Step]_vars

\* C19 witness: the fetch returned the order whose id the placement returned.
C19_Witness ==
    /\ pc["invest"] = "order_ret"
    /\ res["invest"].kind = "ok"
    /\ oid > 0 /\ res["invest"].ord.ID = oid

\* C20: once Invest has returned, the Order record it persisted for the order
\* the exchange accepted holds what the exchange has executed of that order
\* (as negative amounts for a sell), so nothing the exchange executes of it
\* stays out of the ledger, and with it out of position and investment.
C20_SettledFill ==
    ~InBody("invest")
       => \A r \in orders :
             (r.ID = executed.ID)
                => /\ r.BaseAmount =
                        IF r.Type \in {SellMarket, SellLimit}
                        THEN 0 - executed.fa ELSE executed.fa
                   /\ r.QuoteAmount =
                        IF r.Type \in {SellMarket, SellLimit}
                        THEN 0 - executed.fca ELSE executed.fca

\* C12: once NewClient has returned the client, Symbols and Accounts make no
\* attempt at a request, whatever lists were fetched at construction, and the
\* cached lists stay as they are.
C12_Step ==
    Constructed => ((\A p \in Procs : attempts'[p] <= attempts[p]) /\ UNCHANGED clientVars)
C12_CachePopulatedOnce == [][C12_Step]_vars

\* C14: NewDaily, NewWeekly and NewMonthly return a Period holding their
\* arguments when hour is in 0..23, minute in 0..59 and second in 0..59, and
\* an error and no Period when any of the three is outside its range.
Constructors == {"NewDaily", "NewWeekly", "NewMonthly"}
TimeOf(args) == SubSeq(args, Len(args) - 2, Len(args))
C14_PeriodConstruction ==
    (fn.name \in Constructors)
       => LET t == TimeOf(fn.args)
              valid == t[1] \in 0..23 /\ t[2] \in 0..59 /\ t[3] \in 0..59
          IN  /\ fn.err <=> ~valid
              /\ fn.err => fn.obj = NoPeriod
              /\ ~fn.err => /\ fn.obj.hour = t[1]
                            /\ fn.obj.minute = t[2]
                            /\ fn.obj.second = t[3]
                            /\ fn.obj.kind # ""

\* C14 witness: NewMonthly(1, 23, 59, 60) returned an error and no Period.
C14_Witness ==
    /\ fn.name = "NewMonthly" /\ fn.args = <<1, 23, 59, 60>>
    /\ fn.err /\ fn.obj = NoPeriod

\* C15: the string Schedule returns splits at its blanks into six fields:
\* second, minute and hour of the constructor in decimal, then "*", "*", "*"
\* for Daily, "*", "*", weekday number for Weekly, day, "*", "*" for Monthly;
\* NewDaily(7, 56, 34) gives "34 56 7 * * *".
RECURSIVE Fields(_)
Fields(str) ==
    IF \A i \in 1..Len(str) : str[i] # " " THEN <<str>>
    ELSE LET i == CHOOSE j \in 1..Len(str) :
                     str[j] = " " /\ \A k \in 1..(j - 1) : str[k] # " "
         IN  <<SubSeq(str, 1, i - 1)>> \o Fields(SubSeq(str, i + 1, Len(str)))

IsNumber(f) ==
    Len(f) > 0 /\ \A i \in 1..Len(f) : \E d \in 1..10 : DigitChars[d] = f[i]

RECURSIVE Atoi(_)
Atoi(f) ==
    IF Len(f) = 0 THEN 0
    ELSE 10 * Atoi(SubSeq(f, 1, Len(f) - 1))
         + ((CHOOSE d \in 1..10 : DigitChars[d] = f[Len(f)]) - 1)

IsField(f, n) == IsNumber(f) /\ Atoi(f) = n /\ (Len(f) > 1 => f[1] # "0")

C15_ScheduleFormat ==
    (fn.name \in Constructors /\ fn.str # <<>>)
       => LET f == Fields(fn.str)
              t == TimeOf(fn.args)
              star == <<"*">>
          IN  /\ Len(f) = 6
              /\ IsField(f[1], t[3]) /\ IsField(f[2], t[2]) /\ IsField(f[3], t[1])
              /\ fn.name = "NewDaily"
                    => (f[4] = star /\ f[5] = star /\ f[6] = star)
              /\ fn.name = "NewWeekly"
                    => (f[4] = star /\ f[5] = star /\ IsField(f[6], fn.args[1]))
              /\ fn.name = "NewMonthly"
                    => (IsField(f[4], fn.args[1]) /\ f[5] = star /\ f[6] = star)
              /\ fn.args = <<7, 56, 34>>
                    => fn.str = <<"3", "4", " ", "5", "6", " ", "7", " ",
                                  "*", " ", "*", " ", "*">>

\* C15 witness: Schedule of the Period NewWeekly(Saturday, 7, 56, 34) returned
\* is "34 56 7 * * 6".
C15_Witness ==
    /\ fn.name = "NewWeekly" /\ fn.args = <<6, 7, 56, 34>>
    /\ fn.str = <<"3", "4", " ", "5", "6", " ", "7", " ",
                  "*", " ", "*", " ", "6">>

\* C16: the string floor(f, prec) returns is the decimal of the largest
\* multiple of 10^-prec that does not exceed f, and has no point when prec is 0.
\* The value of the string times 10^prec is v; f is fn.args[1] / 2^FracBits.
PointAt(str) ==
    IF \E i \in 1..Len(str) : str[i] = "."
    THEN CHOOSE i \in 1..Len(str) : str[i] = "."
    ELSE Len(str) + 1

RECURSIVE PadRight(_, _)
PadRight(ds, w) == IF Len(ds) >= w THEN ds ELSE PadRight(ds \o <<"0">>, w)

ScaledValue(str, prec) ==
    LET i == PointAt(str)
    IN  Atoi(SubSeq(str, 1, i - 1)) * Pow10(prec)
        + Atoi(PadRight(SubSeq(str, i + 1, Len(str)), prec))

C16_FloorNeverRoundsUp ==
    (fn.name = "floor")
       => LET f == fn.args[1]
              prec == fn.args[2]
              v == ScaledValue(fn.str, prec)
          IN  /\ v * Pow2(FracBits) <= f * Pow10(prec)
              /\ (v + 1) * Pow2(FracBits) > f * Pow10(prec)
              /\ prec = 0 => IsNumber(fn.str)

\* C21: SpotAccountID, which makes no request, returns the id of the first
\* account of type spot of the cached account list when the list has one, and
\* returns the error account not found exactly when the list has none.
FirstSpot == CHOOSE i \in SpotIndexes : \A j \in SpotIndexes : i <= j
C21_SpotAccountID ==
    (fn.name = "SpotAccountID")
       => /\ fn.err <=> SpotIndexes = {}
          /\ SpotIndexes # {} => fn.obj = <<accounts[FirstSpot].ID>>
          /\ pc["main"] = "summary" /\ attempts["main"] = 0

\* C22: a stateFlush whose price lookup fails (the request fails, or the
\* response has no tick data) returns the error and leaves position,
\* investment, price, equity and updated as they are; one whose lookup
\* succeeds sets price to the first tick's price and equity to that price
\* times the position it reads, which is price * position of the state it
\* leaves unless another goroutine wrote them meanwhile; no step of a
\* stateFlush changes position or investment.
C22_Step ==
    \A p \in Procs :
       /\ (pc[p] = "price_ret" /\ pc'[p] # "price_ret")
             => IF res[p].kind = "err" \/ res[p].lst = <<>>
                THEN /\ pc'[p] \in {"idle", "fatal"}
                     /\ ret'[p] = IF res[p].kind = "err" THEN "err"
                                  ELSE "get symbol price failed"
                     /\ UNCHANGED stateVars
                ELSE /\ price' = res[p].lst[1]
                     /\ lprice'[p] = res[p].lst[1]
                     /\ pc'[p] = "flush_read"
                     /\ UNCHANGED <<position, investment>>
       /\ (pc[p] = "flush_read" /\ pc'[p] # "flush_read")
             => (lpos'[p] = position /\ pc'[p] = "flush_write" /\ UNCHANGED stateVars)
       /\ (pc[p] = "flush_write" /\ pc'[p] # "flush_write")
             => /\ equity' = lprice[p] * lpos[p]
                /\ UNCHANGED <<position, investment, price>>
                /\ (price = lprice[p] /\ position = lpos[p])
                      => equity' = price' * position'
       /\ (pc'[p] = "flush_write") => pc[p] \in {"flush_read", "flush_write"}
C22_FlushAllOrNothing == [][C22_Step]_vars

\* C22 witness: the stateFlush of a Monitor got a response with no tick data
\* and returned the error; price, equity and updated are still what New set
\* from the ticks (2, 1).
C22_Witness ==
    /\ pc["monitor"] = "idle" /\ ret["monitor"] = "get symbol price failed"
    /\ pc["invest"] = "idle" /\ nCalls = 1
    /\ position = 1 /\ price = 2 /\ equity = 2 /\ updated = 0

\* C23: a Monitor whose stateFlush succeeded appends one Statistics record
\* holding position, investment, price and equity of the plan as that flush
\* left it, so a record with equity = price * position; a Monitor whose
\* stateFlush failed returns without a record; no step of a Monitor changes
\* position, investment or the Order records.
MonitorStepTaken ==
    InBody("monitor")
    /\ (pc'["monitor"] # pc["monitor"] \/ attempts'["monitor"] # attempts["monitor"])
C23_Step ==
    /\ MonitorStepTaken => UNCHANGED <<position, investment, orders>>
    /\ (statistics' # statistics)
          => /\ pc["monitor"] = "stat_insert" /\ pc'["monitor"] = "idle"
             /\ ret'["monitor"] = "nil"
             /\ \E row \in {statistics'[Len(statistics')]} :
                   /\ statistics' = Append(statistics, row)
                   /\ row.Equity = row.Price * row.Position
                   /\ row = [Position |-> position, Investment |-> investment,
                             Price |-> price, Equity |-> equity]
    /\ (pc["monitor"] = "price_ret" /\ pc'["monitor"] = "idle")
          => (statistics' = statistics /\ ret'["monitor"] # "nil")
C23_MonitorSnapshot == [][C23_Step]_vars

\* C24: an Invest whose Trade fails, at the resolution of the symbol or the
\* account, at the placement or at the fetch of the order, returns the error
\* from that step; up to the return of Trade no step of Invest inserts an
\* Order record or changes position, investment, price, equity or updated,
\* and addOrder is reached only from a Trade that returned an order.
TradeLabels == {"trade", "place_req", "place_ret", "sleep", "order_req", "order_ret"}
InvestStepTaken ==
    pc'["invest"] # pc["invest"] \/ attempts'["invest"] # attempts["invest"]
C24_Step ==
    /\ (pc["invest"] \in TradeLabels /\ InvestStepTaken)
          => (orders' = orders /\ UNCHANGED stateVars)
    /\ (pc["invest"] = "trade" /\ InvestStepTaken
           /\ (~SymbolFound(PlanSymbol) \/ ~SpotAccountFound))
          => /\ pc'["invest"] = "idle"
             /\ ret'["invest"] \in {"symbol not found", "account not found"}
    /\ (pc["invest"] \in {"place_ret", "order_ret"} /\ InvestStepTaken
           /\ res["invest"].kind = "err")
          => (pc'["invest"] = "idle" /\ ret'["invest"] = "err")
    /\ (pc'["invest"] = "add_order" /\ pc["invest"] # "add_order")
          => (pc["invest"] = "order_ret" /\ res["invest"].kind = "ok")
C24_TradeFailureAborts == [][C24_Step]_vars

\* C24 witness: the only call made is an Invest whose order the exchange
\* accepted and whose Trade then failed; it returned the error, and the ledger
\* and the state are still what New seeded.
C24_Witness ==
    /\ pc["invest"] = "idle" /\ ret["invest"] = "err"
    /\ pc["monitor"] = "idle" /\ nCalls = 1
    /\ executed.ID # 0
    /\ orders = {SeedBuy}
    /\ position = 1 /\ investment = 3 /\ equity = price /\ updated = 0

\* C25: with no Order record in storage, stateInit takes (0, 0) as the
\* aggregate and goes on to the price lookup with position = 0 and
\* investment = 0, unless the database itself fails; the plan New then
\* returns has position = 0, investment = 0 and equity = 0.
C25_Step ==
    (pc["main"] = "summary" /\ pc'["main"] # "summary" /\ orders = {})
       => \/ ret'["main"] = "err"
          \/ (pc'["main"] = "price_req" /\ position' = 0 /\ investment' = 0)
C25_Inv ==
    (Ready /\ nCalls = 0 /\ orders = {})
       => (position = 0 /\ investment = 0 /\ equity = 0)
C25_EmptyLedgerStarts == []C25_Inv /\ [][C25_Step]_vars

\* C26: when Invest or Monitor returns, with an error or without, the cron
\* goroutine goes back to waiting and the process keeps running; Trade is
\* entered only by a firing of the investment timer, once for a firing, so a
\* failed call is not made again; and while the process runs, a timer whose
\* call has returned can fire again, whatever that call returned.
Jobs == {"invest", "monitor"}
C26_Step ==
    /\ Ready => Ready'
    /\ \A p \in Jobs :
          (InBody(p) /\ pc'[p] # pc[p])
             => /\ pc'[p] # "fatal"
                /\ pc'[p] = "idle" => ret'[p] # "none"
    /\ (pc'["invest"] = "trade" /\ pc["invest"] # "trade")
          => (pc["invest"] = "idle" /\ nCalls' = nCalls + 1)
    /\ (pc'["invest"] = "place_req" /\ pc["invest"] # "place_req")
          => pc["invest"] = "trade"
    /\ (pc'["monitor"] = "price_req" /\ pc["monitor"] # "price_req")
          => (pc["monitor"] = "idle" /\ nCalls' = nCalls + 1)
C26_Inv ==
    /\ (Ready /\ pc["invest"] = "idle" /\ nCalls < MaxCalls) => ENABLED InvestFire
    /\ (Ready /\ pc["monitor"] = "idle" /\ nCalls < MaxCalls) => ENABLED MonitorFire
    /\ \A p \in Jobs : InBody(p) => Ready
C26_FailedTickSkipped == []C26_Inv /\ [][C26_Step]_vars

\* C26 witness: the first firing was an Invest that returned without an Order
\* record, that is with an error, after the exchange accepted its order; the
\* second firing is an Invest again, now inside its Trade.
C26_Witness ==
    /\ pc["invest"] = "sleep" /\ nCalls = 2
    /\ pc["monitor"] = "idle" /\ ret["monitor"] = "none"
    /\ executed.ID = OrderIdOf(2)
    /\ orders = {SeedBuy}

\* C27: the goroutine of one timer never waits for the other.  Whenever the
\* process runs and a timer's goroutine is idle, the timer can fire, whatever
\* the other goroutine is doing; whenever a goroutine is inside its call, it
\* has a step to take, whatever the other is doing; and a call whose
\* goroutine keeps taking its steps returns, even if the other goroutine
\* never takes another step (its request never answered, its sleep never
\* over).
InvestNext ==
    \/ Do("invest") \/ TradeResolve \/ PlaceRet \/ Sleep \/ OrderRet \/ addOrder
    \/ UpdatePosition \/ UpdateInvestment
    \/ FlushPrice("invest") \/ FlushRead("invest") \/ FlushWrite("invest")
MonitorNext ==
    \/ Do("monitor")
    \/ FlushPrice("monitor") \/ FlushRead("monitor") \/ FlushWrite("monitor")
    \/ StatPosition \/ StatInvestment \/ StatPrice \/ StatInsert
C27_Inv ==
    /\ (Ready /\ pc["monitor"] = "idle" /\ nCalls < MaxCalls) => ENABLED MonitorFire
    /\ (Ready /\ pc["invest"] = "idle" /\ nCalls < MaxCalls) => ENABLED InvestFire
    /\ InBody("monitor") => ENABLED MonitorNext
    /\ InBody("invest") => ENABLED InvestNext
C27_TimersIndependent ==
    /\ []C27_Inv
    /\ WF_vars(MonitorNext) => (InBody("monitor") ~> ~InBody("monitor"))
    /\ WF_vars(InvestNext) => (InBody("invest") ~> ~InBody("invest"))

\* C27 witness: a Monitor that was fired while the Invest fired before it was
\* in flight has flushed, inserted its record and returned, and that Invest
\* is still in its settlement delay.
C27_Witness ==
    /\ pc["invest"] = "sleep"
    /\ pc["monitor"] = "idle" /\ ret["monitor"] = "nil"
    /\ nCalls = 2 /\ updated = 2
    /\ Len(statistics) = 1
====
